---- MODULE Spec2Model ----
(***************************************************************************)
(* GaugeBench: the `run` command (src/src/index.ts) and the `consolidate`  *)
(* command (consolidate.ts, kept as src/unnamed/part_000), sharing the     *)
(* test_outputs directory.                                                 *)
(*                                                                         *)
(* Strings on which the code does character work (model ids, catalog names)*)
(* are sequences of tokens, "/" being a token of its own.  JavaScript      *)
(* values are records [t |-> kind, v |-> canonical text]; a number is      *)
(* kept by its canonical decimal text, so String(x) is x.v.                *)
(***************************************************************************)
EXTENDS Integers, Sequences, FiniteSets, TLC

\* ------------------------------------------------------------------ bounds
MaxRuns == 2
MaxConsolidations == 2

\* ------------------------------------------------------- JavaScript values
Num(s) == [t |-> "number", v |-> s]
Str(s) == [t |-> "string", v |-> s]
Null == [t |-> "null", v |-> ""]
Undefined == [t |-> "undefined", v |-> ""]
NaN == Num("NaN")

\* a === b
StrictEq(a, b) == a.t = b.t /\ a.v = b.v /\ a # NaN

\* parseFloat on the cell texts that occur: a leading decimal numeral is
\* read and canonicalised, anything else (the empty cell included) is NaN
parseFloat(s) ==
  CASE s = "5" -> Num("5")
    [] s = "5.0" -> Num("5")
    [] s = "6" -> Num("6")
    [] OTHER -> NaN

\* what @fast-csv/format writes for a field: null and undefined become the
\* empty cell, everything else its String()
csvCell(x) == IF x.t \in {"null", "undefined"} THEN "" ELSE x.v

\* ------------------------------------------------------------ identifiers
M_ab == <<"a", "/", "b">>
M_a_b == <<"a", "_", "b">>
M_c == <<"c">>
ModelIds == {M_ab, M_a_b, M_c}
ApiTypes == {"openrouter", "openai"}

\* the (model, API) choices a run is started with; no model is named like
\* the leaderboard file
Targets == {<<M_ab, "openrouter">>, <<M_a_b, "openrouter">>, <<M_c, "openai">>}

Unknown == <<"Unknown">>
OpenAI == <<"OpenAI">>

\* modelId.replace(/\//g, '_')
sanitizedModelId(modelId) ==
  [i \in DOMAIN modelId |-> IF modelId[i] = "/" THEN "_" ELSE modelId[i]]

\* name.split('/')[0]
splitFirst(name) ==
  LET slashes == {i \in DOMAIN name : name[i] = "/"}
  IN IF slashes = {} THEN name
     ELSE SubSeq(name, 1, (CHOOSE i \in slashes : \A j \in slashes : i <= j) - 1)

\* the OpenRouter model catalog (response.data.data)
Catalog == {[id |-> M_ab, name |-> <<"acme", "/", "b-vision">>],
            [id |-> M_c, name |-> <<"cee">>]}

\* outcome "ok": the GET succeeds; "fail": it throws
LookupOutcomes == {"ok", "fail"}

fetchModelCreator(modelId, apiType, outcome) ==
  IF apiType = "openai" THEN OpenAI
  ELSE IF outcome = "fail" THEN Unknown
  ELSE IF \E m \in Catalog : m.id = modelId
       THEN splitFirst((CHOOSE m \in Catalog : m.id = modelId).name)
       ELSE Unknown

getModelCreator(modelId, apiType, outcome) ==
  IF apiType = "openai" THEN OpenAI
  ELSE IF outcome = "fail" THEN Unknown
  ELSE IF \E m \in Catalog : m.id = modelId
       THEN splitFirst((CHOOSE m \in Catalog : m.id = modelId).name)
       ELSE Unknown

\* ------------------------------------------------------------ ground truth
F_a == <<"a", "png">>
F_b == <<"b", "png">>
F_u == <<"u", "JPG">>
F_notes == <<"notes", "txt">>

\* outputs.csv as its data rows; it does not change during a behaviour
GroundTruthFiles ==
  { << [filename |-> F_a, min_value |-> "0", max_value |-> "10",
        reading_value |-> "5", units |-> "psi"],
       [filename |-> F_b, min_value |-> "0", max_value |-> "10",
        reading_value |-> "6", units |-> "bar"] >>,
    << [filename |-> F_a, min_value |-> "0", max_value |-> "10",
        reading_value |-> "n/a", units |-> ""] >> }

GT_main == CHOOSE g \in GroundTruthFiles : Len(g) = 2
GT_nan == CHOOSE g \in GroundTruthFiles : Len(g) = 1

\* /\.(jpg|jpeg|png)$/i
isImage(f) == f[2] \in {"jpg", "jpeg", "png", "JPG", "JPEG", "PNG"}

\* the last row of a filename wins, as the assignments in the loop do
loadGroundTruth(rows) ==
  LET names == {rows[i].filename : i \in DOMAIN rows}
      last(f) == CHOOSE i \in DOMAIN rows :
                   /\ rows[i].filename = f
                   /\ \A j \in DOMAIN rows : rows[j].filename = f => j <= i
  IN [f \in names |->
        [filename |-> f,
         min_value |-> parseFloat(rows[last(f)].min_value),
         max_value |-> parseFloat(rows[last(f)].max_value),
         reading_value |-> parseFloat(rows[last(f)].reading_value),
         units |-> rows[last(f)].units]]

\* ------------------------------------------------------------ model replies
\* The raw text of a reply, by what JSON.parse makes of it: "invalid" does
\* not parse; "null", "number", "string", "array" parse to a value that is
\* not an object; "object" parses to an object with the given own fields.
Obj(fs) == [kind |-> "object", fields |-> fs]
NonObject(k) == [kind |-> k, fields |-> <<>>]

R_good == Obj([min_value |-> Num("0"), max_value |-> Num("10"),
               reading_value |-> Num("5"), units |-> Str("psi")])
R_string == Obj([min_value |-> Num("0"), max_value |-> Num("10"),
                 reading_value |-> Str("5.0"), units |-> Str("psi")])
R_wrong == Obj([reading_value |-> Num("6"), units |-> Str("psi")])
R_nullUnits == Obj([reading_value |-> Num("5"), units |-> Null])

Replies == {NonObject("invalid"), NonObject("null"), NonObject("number"),
            NonObject("string"), NonObject("array"),
            R_good, R_string, R_wrong, R_nullUnits}

\* A behaviour fixes the ground truth, the inputs folder and the reply texts
\* the queried models give in it.
Scenarios ==
  {[gt |-> GT_main, inputs |-> <<F_a>>, pool |-> {R_good, R_string}],
   [gt |-> GT_main, inputs |-> <<F_a>>, pool |-> {R_wrong}],
   [gt |-> GT_main, inputs |-> <<F_a>>,
    pool |-> {NonObject("number"), NonObject("null")}],
   [gt |-> GT_main, inputs |-> <<F_a>>,
    pool |-> {NonObject("string"), NonObject("array"), NonObject("invalid")}],
   [gt |-> GT_main, inputs |-> <<F_a, F_notes, F_u>>, pool |-> {R_good}],
   [gt |-> GT_main, inputs |-> <<>>, pool |-> {R_good}],
   [gt |-> GT_nan, inputs |-> <<F_a>>, pool |-> {R_nullUnits}]}

Pending ==
  [filename |-> <<"", "">>, state |-> "pending",
   min_value |-> Undefined, max_value |-> Undefined,
   reading_value |-> Undefined, units |-> Undefined]

\* parsed.key for the value JSON.parse returned: a TypeError on null,
\* undefined on a primitive or an array, the own field of an object
getField(content, key) ==
  IF content.kind = "object"
  THEN IF key \in DOMAIN content.fields THEN content.fields[key] ELSE Undefined
  ELSE Undefined

nullPrediction(filename) ==
  [filename |-> filename, state |-> "fulfilled",
   min_value |-> Null, max_value |-> Null,
   reading_value |-> Null, units |-> Null]

\* the try/catch of processImage on the reply text
processImage(filename, content) ==
  IF content.kind \in {"invalid", "null"}
  THEN nullPrediction(filename)
  ELSE [filename |-> filename, state |-> "fulfilled",
        min_value |-> getField(content, "min_value"),
        max_value |-> getField(content, "max_value"),
        reading_value |-> getField(content, "reading_value"),
        units |-> getField(content, "units")]

\* csvStream.write(record) under the five headers
csvRow(record) ==
  [filename |-> record.filename,
   min_value |-> csvCell(record.min_value),
   max_value |-> csvCell(record.max_value),
   reading_value |-> csvCell(record.reading_value),
   units |-> csvCell(record.units)]

\* ------------------------------------------------------------------ scores
\* (count / length) * 100 as the exact fraction n/d; d = 0 is NaN
noGuardScore(count, length) == [n |-> count * 100, d |-> length]

score(count, length) ==
  IF length # 0 THEN [n |-> count * 100, d |-> length] ELSE [n |-> 0, d |-> 1]

ScoreEq(x, y) == x.d # 0 /\ y.d # 0 /\ x.n * y.d = y.n * x.d
ScoreLeq(x, y) == x.d # 0 /\ y.d # 0 /\ x.n * y.d <= y.n * x.d
Pct(k) == [n |-> k, d |-> 1]

\* the forEach of the run action
runCorrect(responses, groundTruth) ==
  Cardinality({i \in DOMAIN responses :
     /\ responses[i].filename \in DOMAIN groundTruth
     /\ StrictEq(responses[i].reading_value,
                 groundTruth[responses[i].filename].reading_value)
     /\ StrictEq(responses[i].units,
                 Str(groundTruth[responses[i].filename].units))})

\* the forEach of consolidateResults
correctOf(predictions, groundTruth) ==
  Cardinality({i \in DOMAIN predictions :
     /\ predictions[i].filename \in DOMAIN groundTruth
     /\ parseFloat(predictions[i].reading_value) # NaN
     /\ StrictEq(parseFloat(predictions[i].reading_value),
                 groundTruth[predictions[i].filename].reading_value)
     /\ predictions[i].units = groundTruth[predictions[i].filename].units})

lenientCorrectUnitsOf(predictions, groundTruth) ==
  Cardinality({i \in DOMAIN predictions :
     \/ predictions[i].filename \notin DOMAIN groundTruth
     \/ predictions[i].units = groundTruth[predictions[i].filename].units})

correctUnitsOf(predictions, groundTruth) ==
  Cardinality({i \in DOMAIN predictions :
     /\ predictions[i].filename \in DOMAIN groundTruth
     /\ predictions[i].units = groundTruth[predictions[i].filename].units})

\* -------------------------------------------------- the test_outputs folder
CsvName(stem) == [stem |-> stem, ext |-> "csv"]
MetaName(stem) == [stem |-> stem, ext |-> "meta.json"]
Leaderboard == CsvName(<<"test_outputs_consolidated">>)

\* fs.readdir lists names in a fixed (lexical) order
FileOrder == <<CsvName(M_a_b), MetaName(M_a_b), CsvName(M_c), MetaName(M_c),
               Leaderboard>>
readdir(d) == SelectSeq(FileOrder, LAMBDA f : f \in DOMAIN d)

\* a file is created or replaced as a whole
writeFile(d, name, content) ==
  [f \in DOMAIN d \cup {name} |-> IF f = name THEN content ELSE d[f]]

NoMeta ==
  [valid |-> FALSE, model_id |-> <<>>, sanitized_model_id |-> <<>>,
   model_creator |-> <<>>, api_type |-> "", score |-> Pct(0)]

\* loadMetadata: "ok" with the record, "undefined" when the file is absent
\* or does not read as JSON (the catch), "throw" when the error escapes
uncaughtLoadMetadata(d, metaPath) ==
  IF metaPath \notin DOMAIN d THEN [status |-> "undefined", meta |-> NoMeta]
  ELSE IF d[metaPath].valid THEN [status |-> "ok", meta |-> d[metaPath]]
  ELSE [status |-> "throw", meta |-> NoMeta]

loadMetadata(d, metaPath) ==
  IF metaPath \in DOMAIN d /\ d[metaPath].valid
  THEN [status |-> "ok", meta |-> d[metaPath]]
  ELSE [status |-> "undefined", meta |-> NoMeta]

\* Promise.all: the results in the order of the promises, while `settled`
\* is the order in which they completed
completionOrder(responses, settled) ==
  [k \in DOMAIN settled |-> responses[settled[k]]]

promiseAll(responses, settled) == responses

\* ------------------------------------------------------------------- state
VARIABLES
  outputsCsv,          \* the rows of outputs.csv
  replyPool,           \* the reply texts the models give
  inputsDir,           \* the listing of inputs/
  dir,                 \* test_outputs: file name -> content
  pc,                  \* where the run action is
  modelId, apiType,    \* the run's model and API
  imageFiles,          \* the run's input images
  responses,           \* per image: Pending or the record of processImage
  settled,             \* the images in the order their queries completed
                       \* (kept while `promises` is in use)
  lastRaw,             \* `content` of the processImage call that just
                       \* returned (NonObject("none") outside the fan-out)
  runScore,            \* `score` of the run action
  modelCreator,        \* `modelCreator` of the run action
  runs,                \* runs started
  cpc,                 \* where consolidateResults is
  modelCsvFiles,       \* the run files consolidateResults found
  consolidatedRecords, \* the rows it has built
  loggedCount,         \* the count of its last "Recalculated scores" line
  consolidations,      \* consolidations completed
  touched,             \* a run wrote to test_outputs since the last
                       \* consolidation began
  rerun                \* this consolidation began with the leaderboard of
                       \* the previous one and an untouched run store

vars == <<outputsCsv, replyPool, inputsDir, dir, pc, modelId, apiType, imageFiles,
          responses, settled, lastRaw, runScore, modelCreator, runs, cpc,
          modelCsvFiles, consolidatedRecords, loggedCount, consolidations,
          touched, rerun>>

runVars == <<pc, modelId, apiType, imageFiles, responses, settled, lastRaw,
             runScore, modelCreator, runs>>
conVars == <<cpc, modelCsvFiles, consolidatedRecords, loggedCount,
             consolidations, rerun>>

groundTruth == loadGroundTruth(outputsCsv)
runKey == sanitizedModelId(modelId)

Init ==
  /\ \E sc \in Scenarios :
       /\ outputsCsv = sc.gt
       /\ inputsDir = sc.inputs
       /\ replyPool = sc.pool
  /\ dir = <<>>
  /\ pc = "idle"
  /\ modelId = <<>>
  /\ apiType = "openrouter"
  /\ imageFiles = <<>>
  /\ responses = <<>>
  /\ settled = <<>>
  /\ lastRaw = NonObject("none")
  /\ runScore = Pct(0)
  /\ modelCreator = Unknown
  /\ runs = 0
  /\ cpc = "idle"
  /\ modelCsvFiles = <<>>
  /\ consolidatedRecords = <<>>
  /\ loggedCount = 0
  /\ consolidations = 0
  /\ touched = FALSE
  /\ rerun = FALSE

\* ---------------------------------------------------------- the run action
\* lines 27-100: an API and a model are chosen, ground truth and inputs are
\* read, test_outputs is created and the queries are issued.  The exits for a
\* missing key, outputs.csv or inputs folder leave the state as it is.
RunStart(m, api) ==
  /\ <<m, api>> \in Targets
  /\ pc \in {"idle", "done", "aborted"}
  /\ runs < MaxRuns
  /\ pc' = "querying"
  /\ modelId' = m
  /\ apiType' = api
  /\ imageFiles' = SelectSeq(inputsDir, isImage)
  /\ responses' = [i \in 1..Len(SelectSeq(inputsDir, isImage)) |-> Pending]
  /\ settled' = <<>>
  /\ lastRaw' = NonObject("none")
  /\ runs' = runs + 1
  /\ UNCHANGED <<outputsCsv, replyPool, inputsDir, dir, runScore, modelCreator,
                 touched>>
  /\ UNCHANGED conVars

\* processImage returns for image i with the reply `content`
QueryFulfil(i, content) ==
  /\ pc = "querying"
  /\ content \in replyPool
  /\ i \in DOMAIN responses
  /\ responses[i] = Pending
  /\ responses' = [responses EXCEPT ![i] = processImage(imageFiles[i], content)]
  /\ settled' = Append(settled, i)
  /\ lastRaw' = content
  /\ UNCHANGED <<outputsCsv, replyPool, inputsDir, dir, pc, modelId, apiType, imageFiles,
                 runScore, modelCreator, runs, touched>>
  /\ UNCHANGED conVars

\* the request of image i fails: processImage rejects, Promise.all rejects
\* and the action ends there
QueryReject(i) ==
  /\ pc = "querying"
  /\ i \in DOMAIN responses
  /\ responses[i] = Pending
  /\ pc' = "aborted"
  /\ lastRaw' = NonObject("none")
  /\ UNCHANGED <<outputsCsv, replyPool, inputsDir, dir, modelId, apiType, imageFiles,
                 responses, settled, runScore, modelCreator, runs,
                 touched>>
  /\ UNCHANGED conVars

\* fs.createWriteStream with flags 'a': an existing file keeps its rows
RunOpenCsvAppend ==
  /\ pc = "querying"
  /\ \A i \in DOMAIN responses : responses[i] # Pending
  /\ dir' = IF CsvName(runKey) \in DOMAIN dir THEN dir
            ELSE writeFile(dir, CsvName(runKey), <<>>)
  /\ pc' = "writing"
  /\ touched' = TRUE
  /\ lastRaw' = NonObject("none")
  /\ UNCHANGED <<outputsCsv, replyPool, inputsDir, modelId, apiType, imageFiles,
                 responses, settled, runScore, modelCreator, runs>>
  /\ UNCHANGED conVars

\* lines 101-106: Promise.all resolves, the CSV file is opened (truncated)
RunOpenCsv ==
  /\ pc = "querying"
  /\ \A i \in DOMAIN responses : responses[i] # Pending
  /\ dir' = writeFile(dir, CsvName(runKey), <<>>)
  /\ pc' = "writing"
  /\ touched' = TRUE
  /\ lastRaw' = NonObject("none")
  /\ UNCHANGED <<outputsCsv, replyPool, inputsDir, modelId, apiType, imageFiles,
                 responses, settled, runScore, modelCreator, runs>>
  /\ UNCHANGED conVars

\* lines 107-111: the next record reaches the file
RunWriteRow ==
  /\ pc = "writing"
  /\ Len(dir[CsvName(runKey)]) < Len(responses)
  /\ dir' = writeFile(dir, CsvName(runKey),
                      Append(dir[CsvName(runKey)],
                             csvRow(promiseAll(responses, settled)
                                      [Len(dir[CsvName(runKey)]) + 1])))
  /\ touched' = TRUE
  /\ UNCHANGED <<outputsCsv, replyPool, inputsDir>>
  /\ UNCHANGED runVars
  /\ UNCHANGED conVars

\* lines 113-124: the score and the creator
RunScore(outcome) ==
  /\ pc = "writing"
  /\ Len(dir[CsvName(runKey)]) = Len(responses)
  /\ runScore' = score(runCorrect(promiseAll(responses, settled), groundTruth),
                       Len(imageFiles))
  /\ modelCreator' = fetchModelCreator(modelId, apiType, outcome)
  /\ pc' = "scored"
  /\ settled' = <<>>
  /\ UNCHANGED <<outputsCsv, replyPool, inputsDir, dir, modelId, apiType, imageFiles,
                 responses, lastRaw, runs, touched>>
  /\ UNCHANGED conVars

\* fs.writeJson opens the metadata file: it exists and is not yet JSON
RunMetaOpen ==
  /\ pc = "scored"
  /\ dir' = writeFile(dir, MetaName(runKey), NoMeta)
  /\ pc' = "meta"
  /\ touched' = TRUE
  /\ UNCHANGED <<outputsCsv, replyPool, inputsDir, modelId, apiType, imageFiles,
                 responses, settled, lastRaw, runScore, modelCreator, runs>>
  /\ UNCHANGED conVars

\* lines 125-133: the metadata is on disk (evaluated_at, the clock reading,
\* is not kept)
RunMetaWrite ==
  /\ pc = "meta"
  /\ dir' = writeFile(dir, MetaName(runKey),
                      [valid |-> TRUE, model_id |-> modelId,
                       sanitized_model_id |-> runKey,
                       model_creator |-> modelCreator,
                       api_type |-> apiType, score |-> runScore])
  /\ pc' = "done"
  /\ touched' = TRUE
  /\ UNCHANGED <<outputsCsv, replyPool, inputsDir, modelId, apiType, imageFiles,
                 responses, settled, lastRaw, runScore, modelCreator, runs>>
  /\ UNCHANGED conVars

\* ------------------------------------------------------ consolidateResults
\* files.filter(f => f.endsWith('.csv') && f !== 'test_outputs_consolidated.csv')
isModelCsv(f) == f.ext = "csv" /\ f # Leaderboard

\* lines 100-141 for one csvFile: the row pushed to consolidatedRecords
consolidatedRecord(d, gt, csvFile, outcome) ==
  LET sanitizedId == csvFile.stem
      loaded == loadMetadata(d, MetaName(sanitizedId))
      has == loaded.status = "ok"
      id == IF has THEN loaded.meta.model_id ELSE sanitizedId
      creator == IF has THEN loaded.meta.model_creator ELSE Unknown
      api == IF has THEN loaded.meta.api_type ELSE "openrouter"
      predictions == d[csvFile]
  IN [model_id |-> id,
      model_creator |-> IF creator = Unknown
                        THEN getModelCreator(id, api, outcome)
                        ELSE creator,
      score |-> score(correctOf(predictions, gt), Len(predictions)),
      units_accuracy |-> score(correctUnitsOf(predictions, gt),
                               Len(predictions))]

\* lines 80-97: the prerequisites hold (a run has created test_outputs) and
\* the run files are listed
ConsolidateStart ==
  /\ cpc \in {"idle", "aborted"}
  /\ consolidations < MaxConsolidations
  /\ runs > 0
  /\ modelCsvFiles' = SelectSeq(readdir(dir), isModelCsv)
  /\ consolidatedRecords' = <<>>
  /\ cpc' = "loop"
  /\ rerun' = (Leaderboard \in DOMAIN dir /\ ~touched)
  /\ touched' = FALSE
  /\ UNCHANGED <<outputsCsv, replyPool, inputsDir, dir, loggedCount, consolidations>>
  /\ UNCHANGED runVars

\* one iteration of the for loop; an error that escapes loadMetadata ends
\* the command
ConsolidateFile(outcome) ==
  /\ cpc = "loop"
  /\ Len(consolidatedRecords) < Len(modelCsvFiles)
  /\ LET csvFile == modelCsvFiles[Len(consolidatedRecords) + 1]
     IN IF loadMetadata(dir, MetaName(csvFile.stem)).status = "throw"
        THEN /\ cpc' = "aborted"
             /\ UNCHANGED consolidatedRecords
        ELSE /\ cpc' = "loop"
             /\ consolidatedRecords' =
                  Append(consolidatedRecords,
                         consolidatedRecord(dir, groundTruth, csvFile, outcome))
  /\ UNCHANGED <<outputsCsv, replyPool, inputsDir, dir, modelCsvFiles, loggedCount,
                 consolidations, touched, rerun>>
  /\ UNCHANGED runVars

\* lines 144-154: the leaderboard is rewritten and the count logged
ConsolidateWrite ==
  /\ cpc = "loop"
  /\ Len(consolidatedRecords) = Len(modelCsvFiles)
  /\ dir' = writeFile(dir, Leaderboard, consolidatedRecords)
  /\ loggedCount' = Len(consolidatedRecords)
  /\ consolidations' = consolidations + 1
  /\ cpc' = "idle"
  /\ UNCHANGED <<outputsCsv, replyPool, inputsDir, modelCsvFiles, consolidatedRecords,
                 touched, rerun>>
  /\ UNCHANGED runVars

Next ==
  \/ \E m \in ModelIds, api \in ApiTypes : RunStart(m, api)
  \/ \E i \in 1..3, content \in Replies : QueryFulfil(i, content)
  \/ \E i \in 1..3 : QueryReject(i)
  \/ RunOpenCsv
  \/ RunWriteRow
  \/ \E outcome \in LookupOutcomes : RunScore(outcome)
  \/ RunMetaOpen
  \/ RunMetaWrite
  \/ ConsolidateStart
  \/ \E outcome \in LookupOutcomes : ConsolidateFile(outcome)
  \/ ConsolidateWrite

Spec == Init /\ [][Next]_vars


\* =================================================================== claims
Last(q) == q[Len(q)]
rowsOf(rs) == [i \in DOMAIN rs |-> csvRow(rs[i])]
filenamesOf(rows) == [i \in DOMAIN rows |-> rows[i].filename]
metadataOfRun ==
  [valid |-> TRUE, model_id |-> modelId, sanitized_model_id |-> runKey,
   model_creator |-> modelCreator, api_type |-> apiType, score |-> runScore]
hasMeta(stem) == MetaName(stem) \in DOMAIN dir /\ dir[MetaName(stem)].valid
\* the rows consolidateResults has built were computed from the files as
\* they are now
Stable == ~touched /\ (cpc = "loop" \/ consolidations > 0)
\* no run is between opening its CSV and finishing its metadata
NoRunWriting == pc \in {"idle", "querying", "aborted", "done"}
knownOnly(predictions) ==
  SelectSeq(predictions, LAMBDA r : r.filename \in DOMAIN groundTruth)

\* C1: a run in which the query of one image failed still ends with its
\* record (one row per input image) and its metadata persisted.
C1_FailureIsolated ==
  pc = "aborted" =>
    /\ CsvName(runKey) \in DOMAIN dir
    /\ filenamesOf(dir[CsvName(runKey)]) = imageFiles
    /\ hasMeta(runKey)

\* C2: whatever the order in which the queries completed, the rows of the
\* persisted record are the predictions of the input images, one per image
\* and in input order; while the file is being written it is a prefix.
C2_RowsInInputOrder ==
  /\ pc \in {"scored", "meta", "done"} =>
       /\ filenamesOf(dir[CsvName(runKey)]) = imageFiles
       /\ dir[CsvName(runKey)] = rowsOf(responses)
  /\ pc = "writing" =>
       /\ Len(dir[CsvName(runKey)]) <= Len(imageFiles)
       /\ \A i \in DOMAIN dir[CsvName(runKey)] :
            dir[CsvName(runKey)][i] = csvRow(responses[i])

C2_Witness ==
  /\ pc = "writing"
  /\ settled = <<2, 1>>
  /\ Len(dir[CsvName(runKey)]) = 2

\* C3: consolidation builds a leaderboard row only for a run whose metadata
\* file exists.
C3_MetadataIsCommit ==
  cpc = "loop" =>
    \A k \in DOMAIN consolidatedRecords :
      MetaName(modelCsvFiles[k].stem) \in DOMAIN dir

\* C4: a consolidation that follows another with the run store untouched in
\* between rewrites the leaderboard to the same content.
C4_Idempotent ==
  [][(cpc = "loop" /\ cpc' = "idle" /\ rerun /\ ~touched)
       => dir'[Leaderboard] = dir[Leaderboard]]_vars

\* C5: every leaderboard row has 0 <= score <= units_accuracy <= 100 and a
\* score that is a number, 0 for a record without predictions; the score of
\* a run is in [0, 100] and 0 for a run without images.
ScoreInRange(x) == x.d > 0 /\ ScoreLeq(Pct(0), x) /\ ScoreLeq(x, Pct(100))

C5_ScoreBounds ==
  /\ \A k \in DOMAIN consolidatedRecords :
       /\ ScoreInRange(consolidatedRecords[k].score)
       /\ ScoreInRange(consolidatedRecords[k].units_accuracy)
       /\ ScoreLeq(consolidatedRecords[k].score,
                   consolidatedRecords[k].units_accuracy)
       /\ (Stable /\ dir[modelCsvFiles[k]] = <<>>)
            => consolidatedRecords[k].score = Pct(0)
  /\ Leaderboard \in DOMAIN dir =>
       \A k \in DOMAIN dir[Leaderboard] :
         /\ ScoreInRange(dir[Leaderboard][k].score)
         /\ ScoreLeq(dir[Leaderboard][k].score,
                     dir[Leaderboard][k].units_accuracy)
         /\ ScoreInRange(dir[Leaderboard][k].units_accuracy)
  /\ pc \in {"scored", "meta", "done"} =>
       /\ ScoreInRange(runScore)
       /\ imageFiles = <<>> => runScore = Pct(0)
  /\ \A m \in ModelIds :
       hasMeta(sanitizedModelId(m)) =>
         ScoreInRange(dir[MetaName(sanitizedModelId(m))].score)

C5_Witness ==
  /\ Stable
  /\ pc = "done"
  /\ imageFiles = <<>>
  /\ Len(consolidatedRecords) = 2
  /\ \E k \in DOMAIN consolidatedRecords :
       /\ dir[modelCsvFiles[k]] = <<>>
       /\ consolidatedRecords[k].score = Pct(0)

\* C6: a reply that does not decode as a JSON object gives, for its image,
\* the prediction with the filename kept and the four fields null.
C6_NonObjectAllNull ==
  (pc = "querying" /\ settled # <<>>
     /\ lastRaw.kind \in {"invalid", "null", "number", "string", "array"})
    => responses[Last(settled)] = nullPrediction(imageFiles[Last(settled)])

C8_MetadataDefaults ==
  /\ cpc # "aborted"
  /\ Stable =>
       \A k \in DOMAIN consolidatedRecords :
         ~hasMeta(modelCsvFiles[k].stem) =>
           /\ consolidatedRecords[k].model_id = modelCsvFiles[k].stem
           /\ consolidatedRecords[k].model_creator \in
                {getModelCreator(modelCsvFiles[k].stem, "openrouter", o) :
                   o \in LookupOutcomes}
  /\ (cpc = "idle" /\ consolidations > 0) =>
       /\ dir[Leaderboard] = consolidatedRecords
       /\ loggedCount = Len(modelCsvFiles)
       /\ loggedCount = Len(dir[Leaderboard])

C8_Witness ==
  /\ cpc = "idle"
  /\ consolidations > 0
  /\ ~touched
  /\ pc = "meta"
  /\ modelId = M_ab
  /\ MetaName(runKey) \in DOMAIN dir
  /\ ~dir[MetaName(runKey)].valid
  /\ loggedCount = 2
  /\ dir[Leaderboard][1].model_id = M_a_b
  /\ hasMeta(modelCsvFiles[2].stem)

\* C9 (as claimed): the score and the units accuracy of a leaderboard row
\* are those of the record without its predictions for filenames that have
\* no ground-truth entry.
C9_UnknownIgnored ==
  Stable =>
    \A k \in DOMAIN consolidatedRecords :
      LET known == knownOnly(dir[modelCsvFiles[k]])
      IN /\ ScoreEq(consolidatedRecords[k].score,
                    score(correctOf(known, groundTruth), Len(known)))
         /\ ScoreEq(consolidatedRecords[k].units_accuracy,
                    score(correctUnitsOf(known, groundTruth), Len(known)))

\* C9 (amended): predictions for filenames without a ground-truth entry are
\* never counted correct or units-correct but stay in the denominator, in
\* consolidation and in the run's own score; ground-truth entries without a
\* prediction change neither count.
C9_UnknownNotCounted ==
  /\ Stable =>
       \A k \in DOMAIN consolidatedRecords :
         LET predictions == dir[modelCsvFiles[k]]
             known == knownOnly(predictions)
             predicted == {predictions[i].filename : i \in DOMAIN predictions}
             gtOfPredicted ==
               [f \in DOMAIN groundTruth \cap predicted |-> groundTruth[f]]
         IN /\ consolidatedRecords[k].score =
                 score(correctOf(known, groundTruth), Len(predictions))
            /\ consolidatedRecords[k].units_accuracy =
                 score(correctUnitsOf(known, groundTruth), Len(predictions))
            /\ consolidatedRecords[k].score =
                 score(correctOf(predictions, gtOfPredicted), Len(predictions))
            /\ consolidatedRecords[k].units_accuracy =
                 score(correctUnitsOf(predictions, gtOfPredicted),
                       Len(predictions))
  /\ pc \in {"scored", "meta", "done"} =>
       runScore = score(runCorrect(knownOnly(responses), groundTruth),
                        Len(imageFiles))

C9_Witness ==
  /\ Stable
  /\ NoRunWriting
  /\ \E k \in DOMAIN consolidatedRecords :
       /\ Len(dir[modelCsvFiles[k]]) = 2
       /\ Len(knownOnly(dir[modelCsvFiles[k]])) = 1
       /\ consolidatedRecords[k].score = [n |-> 100, d |-> 2]
       /\ consolidatedRecords[k].units_accuracy = [n |-> 100, d |-> 2]

\* C10: the score a run stored in its metadata equals the score a later
\* consolidation computes from that run's prediction file.
C10_ScorersAgree ==
  (Stable /\ NoRunWriting) =>
    \A k \in DOMAIN consolidatedRecords :
      hasMeta(modelCsvFiles[k].stem) =>
        ScoreEq(consolidatedRecords[k].score,
                dir[MetaName(modelCsvFiles[k].stem)].score)
====
